---- MODULE Spec2Model ----
(***************************************************************************)
(* State machine of the todo-tui application (src/src/main.rs): the task   *)
(* store, the filtered view, the table selection, the create/edit form,    *)
(* the info overlay and the persisted list, driven by one key press per    *)
(* iteration of App::run's draw / read / dispatch loop.                    *)
(*                                                                         *)
(* Indices (selection, edit target, checkbox cursor, palette) are 0-based  *)
(* as in the Rust source; TLA+ sequences are 1-based, so items[i + 1] is   *)
(* the source's items[i].  An Option<usize> is the empty set (None) or a   *)
(* singleton {i} (Some(i)).  A String is a sequence of characters.         *)
(***************************************************************************)
EXTENDS Integers, Sequences, FiniteSets, TLC

(* ------------------------------ bounds -------------------------------- *)

\* Most tasks the store holds (the create submit is not pressed beyond it).
MaxItems == 2

\* Most tasks data.json holds at startup in the Browse-only sessions.
MaxFileItems == 3

\* Most characters a form buffer holds when a character key is pressed (the
\* program's own caps on the buffers are NameCap and DescCap).
MaxLen == 1

\* Timestamps Local::now() can yield are 0..MaxTime.
MaxTime == 1

\* Most writes of data.json that fail in one session.
MaxFaults == 1

\* Most tasks data.json holds at startup in the sessions that delete from a
\* view of three rows standing after a hidden task.
MaxViewItems == 4

\* Most tasks data.json holds at startup in the sessions that press every key
\* in every mode.
MaxRoutingItems == 1

\* The sessions that type at the caps start with form buffers whose byte
\* length is within CapWindow of the buffer's cap.
CapWindow == 3

(* ------------------------- program constants -------------------------- *)

NameCap == 50
DescCap == 255
PaletteCount == 4
CheckboxCount == 3

(* ------------------------------ values -------------------------------- *)

Progress == {"InProgress", "Waiting", "Done"}

\* Characters the keyboard sends in the explored runs: a letter (which is
\* also the Browse-mode create command) and a whitespace character.
Chars == {"a", " "}

\* The letters that are commands in Browse mode
CommandLetters == {"q", "x", "n", "t", "a", "r", "i", "j", "k", "l", "h"}

\* The characters typed at the caps: "a" (1 byte in UTF-8) and "é" (2 bytes).
CapChars == {"a", "é"}

Times == 0..MaxTime

None == {}
Some(i) == {i}
Unwrap(o) == CHOOSE x \in o : TRUE

SeqsUpTo(S, n) == UNION {[1..k -> S] : k \in 0..n}

\* Tasks a data.json written by an earlier session can hold.
FileTasks ==
  [name : {<<"a">>}, description : {<<>>}, progress : Progress, created : Times]

VARIABLES
  items,              \* App.items: the store
  selected,           \* App.state.selected(): Option<usize>
  color_index,        \* App.color_index
  show_create,        \* App.show_create
  show_info,          \* App.show_info
  input_name,         \* App.input_name
  input_description,  \* App.input_description
  input_focus,        \* App.input_focus: "Name" | "Description"
  editing_index,      \* App.editing_index: Option<usize>
  checkboxes,         \* App.info_popup.checkboxes[k].checked, k = 0..2
  selected_checkbox,  \* App.info_popup.selected_checkbox
  hide_completed,     \* App.hide_completed
  disk,               \* data.json: [valid, data]
  io_faults,          \* write failures the file system may still produce
  pc,                 \* position in App::run's loop: draw, read, done, panic
  last                \* history: the key the latest dispatch handled and the
                      \* selection, edit target and store it started from

vars ==
  <<items, selected, color_index, show_create, show_info,
    input_name, input_description, input_focus, editing_index, checkboxes,
    selected_checkbox, hide_completed, disk, io_faults, pc, last>>

formVars == <<show_create, input_name, input_description, input_focus, editing_index>>
infoVars == <<show_info, checkboxes, selected_checkbox>>

(* --------------------------- pure functions --------------------------- *)

\* usize::saturating_sub
SaturatingSub(a, b) == IF a >= b THEN a - b ELSE 0

\* str::len(): the length in bytes of the UTF-8 encoding.
CharBytes(c) == IF c = "é" THEN 2 ELSE 1

RECURSIVE ByteLen(_)
ByteLen(s) ==
  IF s = <<>> THEN 0
  ELSE IF Len(s) = 1 THEN CharBytes(s[1])
  ELSE LET h == Len(s) \div 2
       IN ByteLen(SubSeq(s, 1, h)) + ByteLen(SubSeq(s, h + 1, Len(s)))

\* Mutant of TrimIsEmpty: is_empty() without the trim
IsEmptyUntrimmed(s) == s = <<>>

\* str::trim().is_empty()
TrimIsEmpty(s) == \A k \in 1..Len(s) : s[k] = " "

\* Vec::swap_remove(index): the last element takes the place of the removed one.
SwapRemoveAt(s, index) ==
  [k \in 1..(Len(s) - 1) |-> IF k = index + 1 THEN s[Len(s)] ELSE s[k]]

\* Vec::remove(index), index 0-based
RemoveAt(s, index) == [k \in 1..(Len(s) - 1) |-> IF k <= index THEN s[k] ELSE s[k + 1]]

\* Iterator::filter over the store, keeping order
RECURSIVE NotDone(_)
NotDone(s) ==
  IF s = <<>> THEN <<>>
  ELSE IF Head(s).progress /= "Done" THEN <<Head(s)>> \o NotDone(Tail(s))
       ELSE NotDone(Tail(s))

\* Mutant of GetFilteredItems: the flag read the wrong way round
GetFilteredItemsInverted(its, hide) == IF hide THEN its ELSE NotDone(its)

\* App::get_filtered_items (and the same filter inlined in render_table)
GetFilteredItems(its, hide) == IF hide THEN NotDone(its) ELSE its

\* A comparison that leaves the progress out.
ItemMatchesIgnoresProgress(item, selected_item) ==
  /\ item.name = selected_item.name
  /\ item.description = selected_item.description
  /\ item.created = selected_item.created

\* App::item_matches
ItemMatches(item, selected_item) ==
  /\ item.name = selected_item.name
  /\ item.description = selected_item.description
  /\ item.progress = selected_item.progress
  /\ item.created = selected_item.created

\* A search that returns the last matching store index (rposition).
PositionLast(its, selected_item) ==
  LET hits == {k \in 1..Len(its) : ItemMatches(its[k], selected_item)}
  IN IF hits = {} THEN None
     ELSE Some((CHOOSE k \in hits : \A j \in hits : k >= j) - 1)

\* self.items.iter().position(|item| item_matches(item, selected_item)): Option<usize>
Position(its, selected_item) ==
  LET hits == {k \in 1..Len(its) : ItemMatches(its[k], selected_item)}
  IN IF hits = {} THEN None
     ELSE Some((CHOOSE k \in hits : \A j \in hits : k <= j) - 1)

\* The store index the selection resolves to (delete, edit_item, next_progress):
\* None when nothing is selected or the selection is outside the view.
Resolve(its, hide, sel) ==
  LET view == GetFilteredItems(its, hide)
  IN IF sel = None \/ Unwrap(sel) >= Len(view) THEN None
     ELSE Position(its, view[Unwrap(sel) + 1])

\* Mutant of NextProgressOf: the cycle run backwards
NextProgressReversed(p) ==
  CASE p = "InProgress" -> "Done"
    [] p = "Waiting" -> "InProgress"
    [] p = "Done" -> "Waiting"

\* The match of next_progress
NextProgressOf(p) ==
  CASE p = "InProgress" -> "Waiting"
    [] p = "Waiting" -> "Done"
    [] p = "Done" -> "InProgress"

\* Mutant of CreateItem: the new task gets Progress::default()
CreateItemDefaultProgress(name, description, now) ==
  [name |-> name, description |-> description, progress |-> "Waiting", created |-> now]

\* App::create_item, at time now
CreateItem(name, description, now) ==
  [name |-> name, description |-> description, progress |-> "InProgress", created |-> now]

\* An update_selected_index that never moves the selection.
UpdateSelectedIndexKeeps(its, hide, sel) == sel

\* An update_selected_index that moves an out-of-range selection to the
\* view's last row.
UpdateSelectedIndexToLast(its, hide, sel) ==
  IF sel = None THEN Some(0)
  ELSE IF Unwrap(sel) >= Len(GetFilteredItems(its, hide))
  THEN Some(SaturatingSub(Len(GetFilteredItems(its, hide)), 1))
  ELSE sel

\* App::update_selected_index
UpdateSelectedIndex(its, hide, sel) ==
  IF sel = None THEN Some(0)
  ELSE IF Unwrap(sel) >= Len(GetFilteredItems(its, hide)) THEN Some(0)
  ELSE sel

\* read_json().unwrap_or_default(): a missing or malformed file loads as no tasks
ReadJson(d) == IF d.valid THEN d.data ELSE <<>>

(* ------------------------------- Init --------------------------------- *)

\* The history record of a loop iteration that has read no key yet; before
\* is what the previous iteration left for it (see Toggled).
NoInput(tag, before) ==
  [key |-> tag, sel |-> None, edit |-> None, items |-> <<>>, hide |-> FALSE,
   before |-> before]

\* What the iteration after a press of the filter key remembers of it: the
\* selection, the flag and the store that press found.
Toggled(l) ==
  IF l.key = "toggle_hide"
  THEN <<[sel |-> l.sel, hide |-> l.hide, items |-> l.items]>>
  ELSE <<>>

\* App::new: the store is what data.json holds (at most n tasks).
AppNew(n) ==
  /\ disk \in [valid : BOOLEAN, data : SeqsUpTo(FileTasks, n)]
  /\ ~disk.valid => disk.data = <<>>
  /\ items = ReadJson(disk)
  /\ selected = Some(0)
  /\ color_index = 0
  /\ show_create = FALSE
  /\ show_info = FALSE
  /\ input_name = <<>>
  /\ input_description = <<>>
  /\ input_focus = "Name"
  /\ editing_index = None
  /\ checkboxes = <<FALSE, FALSE, FALSE>>
  /\ selected_checkbox = 0
  /\ hide_completed = FALSE
  /\ pc = "draw"
  /\ last = NoInput("start", <<>>)

\* Sessions in which every write of data.json succeeds.
Init == AppNew(MaxItems) /\ io_faults = 0

InitBrowse == AppNew(MaxFileItems) /\ io_faults = 0

\* n times the character c
Fill(c, n) == [k \in 1..n |-> c]

\* The buffers of one character repeated whose byte length is within
\* CapWindow of cap
NearCap(cap) ==
  {s \in {Fill(c, n) : c \in CapChars, n \in 0..cap} :
     ByteLen(s) \in (cap - CapWindow)..cap}

\* The create form at a key read after 'a' and a run of one character typed
\* into each buffer, on an empty store.
InitCap ==
  /\ disk = [valid |-> TRUE, data |-> <<>>]
  /\ io_faults = 0
  /\ items = <<>>
  /\ selected \in {Some(0), None}
  /\ color_index = 0
  /\ show_create = TRUE
  /\ show_info = FALSE
  /\ input_name \in NearCap(NameCap)
  /\ input_description \in NearCap(DescCap)
  /\ input_focus \in {"Name", "Description"}
  /\ editing_index = None
  /\ checkboxes = <<FALSE, FALSE, FALSE>>
  /\ selected_checkbox = 0
  /\ hide_completed = FALSE
  /\ pc = "read"
  /\ last = NoInput("draw", <<>>)

InitView == AppNew(MaxViewItems) /\ io_faults = 0

InitRouting == AppNew(MaxRoutingItems) /\ io_faults = 0

\* Sessions in which up to MaxFaults writes of data.json fail.
InitIO == AppNew(MaxItems) /\ io_faults = MaxFaults

(* ------------------------------- draw --------------------------------- *)

\* App::render_table's effect on the selection: reset to row 0 when it is
\* outside the view (lines 676-680); the table widget then renders with the
\* state (line 726) and, when there are no rows, may clear the selection.
RenderTable(its, hide, sel) ==
  LET view == GetFilteredItems(its, hide)
      s1 == IF sel /= None /\ Unwrap(sel) >= Len(view) THEN Some(0) ELSE sel
  IN IF view = <<>> THEN {s1, None} ELSE {s1}

\* terminal.draw(|frame| self.draw(frame)) at the top of the loop
Draw ==
  /\ pc = "draw"
  /\ selected' \in RenderTable(items, hide_completed, selected)
  /\ pc' = "read"
  /\ last' = NoInput("draw", Toggled(last))
  /\ UNCHANGED <<items, color_index, formVars, infoVars,
                 hide_completed, disk, io_faults>>

(* ---------------------------- Browse mode ----------------------------- *)

\* A dispatch that tests show_info alone before the Browse keys.
BrowseIgnoresForm == pc = "read" /\ ~show_info

\* A dispatch that tests show_create alone before the Browse keys.
BrowseIgnoresOverlay == pc = "read" /\ ~show_create

Browse == pc = "read" /\ ~show_create /\ ~show_info

Seen(key) ==
  [key |-> key, sel |-> selected, edit |-> editing_index, items |-> items,
   hide |-> hide_completed, before |-> last.before]

Handled(key) ==
  /\ pc' = "draw"
  /\ last' = Seen(key)

\* App::next evaluates items.len() - 1 on an empty store when a row is
\* selected: usize underflow, a panic in a build with overflow checks.
NextUnderflows(its, sel) == sel /= None /\ Len(its) = 0

\* App::next: the new selection (on underflow without overflow checks the
\* bound wraps to usize::MAX, and the index is incremented).
NextIndex(its, sel) ==
  IF sel = None THEN Some(0)
  ELSE IF Len(its) = 0 THEN Some(Unwrap(sel) + 1)
  ELSE IF Unwrap(sel) >= Len(its) - 1 THEN Some(0)
  ELSE Some(Unwrap(sel) + 1)

\* KeyCode::Char('j') | KeyCode::Down => self.next()
KeyNext ==
  /\ Browse
  /\ selected' = NextIndex(items, selected)
  /\ Handled("next")
  /\ UNCHANGED <<items, color_index, formVars, infoVars,
                 hide_completed, disk, io_faults>>

\* The same key in a build with overflow checks, on an empty store.
KeyNextPanic ==
  /\ Browse
  /\ NextUnderflows(items, selected)
  /\ pc' = "panic"
  /\ last' = Seen("next")
  /\ UNCHANGED <<items, selected, color_index, formVars, infoVars,
                 hide_completed, disk, io_faults>>

\* App::previous
PreviousIndex(its, sel) ==
  IF sel = None THEN Some(0)
  ELSE IF Unwrap(sel) = 0 THEN Some(SaturatingSub(Len(its), 1))
  ELSE Some(SaturatingSub(Unwrap(sel), 1))

\* KeyCode::Char('k') | KeyCode::Up => self.previous()
KeyPrevious ==
  /\ Browse
  /\ selected' = PreviousIndex(items, selected)
  /\ Handled("previous")
  /\ UNCHANGED <<items, color_index, formVars, infoVars,
                 hide_completed, disk, io_faults>>

\* save_json: File::create then serde_json::to_writer_pretty.  A failure of
\* File::create leaves the file as it was; a failure while writing leaves it
\* truncated or partial, which read_json rejects.
CorruptFile == [valid |-> FALSE, data |-> <<>>]

\* A save that reports success without creating the file.
SaveJsonKeepsFile(d, its, faults) ==
  {[disk |-> d, io_faults |-> faults, ok |-> TRUE]}

SaveJson(d, its, faults) ==
  {[disk |-> [valid |-> TRUE, data |-> its], io_faults |-> faults, ok |-> TRUE]}
  \cup (IF faults > 0
        THEN {[disk |-> d, io_faults |-> faults - 1, ok |-> FALSE],
              [disk |-> CorruptFile, io_faults |-> faults - 1, ok |-> FALSE]}
        ELSE {})

\* App::next_color / App::previous_color
NextColor(c) == (c + 1) % PaletteCount
PreviousColor(c) == (c + PaletteCount - 1) % PaletteCount

\* A lock test that reads the first checkbox ("Hide Completed").
LockColorReadsFirst == checkboxes[1]

\* The "Lock Color" checkbox (checkboxes[1]) read by the color keys
LockColorChecked == checkboxes[2]

\* KeyCode::Char('l') | KeyCode::Right
KeyNextColor ==
  /\ Browse
  /\ color_index' = IF LockColorChecked THEN color_index ELSE NextColor(color_index)
  /\ Handled("next_color")
  /\ UNCHANGED <<items, selected, formVars, infoVars,
                 hide_completed, disk, io_faults>>

\* KeyCode::Char('h') | KeyCode::Left
KeyPreviousColor ==
  /\ Browse
  /\ color_index' = IF LockColorChecked THEN color_index ELSE PreviousColor(color_index)
  /\ Handled("previous_color")
  /\ UNCHANGED <<items, selected, formVars, infoVars,
                 hide_completed, disk, io_faults>>

\* The selection App::delete leaves after removing store index `index`
\* (len is the store's length after the removal).
DeleteNewIndex(index, len) == IF index >= len THEN SaturatingSub(len, 1) ELSE index

\* KeyCode::Char('x') | KeyCode::Delete => self.delete()
KeyDelete ==
  /\ Browse
  /\ LET target == IF items = <<>> THEN None
                   ELSE Resolve(items, hide_completed, selected)
     IN IF target = None
        THEN UNCHANGED <<items, selected, disk, io_faults>>
        ELSE LET index == Unwrap(target)
                 its == RemoveAt(items, index)
             IN /\ items' = its
                /\ selected' = Some(DeleteNewIndex(index, Len(its)))
                /\ \E w \in SaveJson(disk, its, io_faults) :
                     /\ disk' = w.disk
                     /\ io_faults' = w.io_faults
  /\ Handled("delete")
  /\ UNCHANGED <<color_index, formVars, infoVars, hide_completed>>

\* KeyCode::Char('i') => self.toggle_info()
KeyInfo ==
  /\ Browse
  /\ show_info' = ~show_info
  /\ Handled("info")
  /\ UNCHANGED <<items, selected, color_index, formVars, checkboxes,
                 selected_checkbox, hide_completed, disk, io_faults>>

\* Mutant of ToggleCreate: the buffers are not cleared when the form opens
ToggleCreateKeepsBuffers(its, form) ==
  IF ~form.show_create
  THEN [show_create |-> TRUE,
        input_name |-> IF form.editing_index = None THEN form.input_name
                       ELSE its[Unwrap(form.editing_index) + 1].name,
        input_description |-> IF form.editing_index = None THEN form.input_description
                              ELSE its[Unwrap(form.editing_index) + 1].description,
        input_focus |-> "Name",
        editing_index |-> form.editing_index]
  ELSE [show_create |-> FALSE,
        input_name |-> <<>>,
        input_description |-> <<>>,
        input_focus |-> form.input_focus,
        editing_index |-> None]

\* App::toggle_create, as a function of the form: the form after the call.
ToggleCreate(its, form) ==
  IF ~form.show_create
  THEN [show_create |-> TRUE,
        input_name |-> IF form.editing_index = None THEN <<>>
                       ELSE its[Unwrap(form.editing_index) + 1].name,
        input_description |-> IF form.editing_index = None THEN <<>>
                              ELSE its[Unwrap(form.editing_index) + 1].description,
        input_focus |-> "Name",
        editing_index |-> form.editing_index]
  ELSE [show_create |-> FALSE,
        input_name |-> <<>>,
        input_description |-> <<>>,
        input_focus |-> form.input_focus,
        editing_index |-> None]

Form ==
  [show_create |-> show_create, input_name |-> input_name,
   input_description |-> input_description, input_focus |-> input_focus,
   editing_index |-> editing_index]

SetForm(f) ==
  /\ show_create' = f.show_create
  /\ input_name' = f.input_name
  /\ input_description' = f.input_description
  /\ input_focus' = f.input_focus
  /\ editing_index' = f.editing_index

\* KeyCode::Char('a'): editing_index = None; toggle_create()
KeyCreate ==
  /\ Browse
  /\ SetForm(ToggleCreate(items, [Form EXCEPT !.editing_index = None]))
  /\ Handled("create")
  /\ UNCHANGED <<items, selected, color_index, infoVars,
                 hide_completed, disk, io_faults>>

\* App::edit_item: the form after the call
EditItem(its, hide, sel, form) ==
  LET target == Resolve(its, hide, sel)
  IN IF target = None THEN form
     ELSE ToggleCreate(its, [form EXCEPT !.editing_index = target])

\* KeyCode::Char('r') => self.edit_item()
KeyEdit ==
  /\ Browse
  /\ SetForm(EditItem(items, hide_completed, selected, Form))
  /\ Handled("edit")
  /\ UNCHANGED <<items, selected, color_index, infoVars,
                 hide_completed, disk, io_faults>>

\* App::next_progress: the store after the call (unchanged when the
\* selection resolves to nothing)
NextProgress(its, hide, sel) ==
  LET target == Resolve(its, hide, sel)
  IN IF target = None THEN its
     ELSE [its EXCEPT ![Unwrap(target) + 1].progress = NextProgressOf(@)]

\* KeyCode::Char('n') => self.next_progress()
KeyProgress ==
  /\ Browse
  /\ IF Resolve(items, hide_completed, selected) = None
     THEN UNCHANGED <<items, disk, io_faults>>
     ELSE /\ items' = NextProgress(items, hide_completed, selected)
          /\ \E w \in SaveJson(disk, items', io_faults) :
               /\ disk' = w.disk
               /\ io_faults' = w.io_faults
  /\ Handled("progress")
  /\ UNCHANGED <<selected, color_index, formVars, infoVars,
                 hide_completed>>

\* KeyCode::Char('t'): hide_completed = !hide_completed; update_selected_index()
KeyToggleHide ==
  /\ Browse
  /\ hide_completed' = ~hide_completed
  /\ selected' = UpdateSelectedIndex(items, ~hide_completed, selected)
  /\ Handled("toggle_hide")
  /\ UNCHANGED <<items, color_index, formVars, infoVars,
                 disk, io_faults>>

\* KeyCode::Char('q') | KeyCode::Esc => return Ok(())
KeyQuit ==
  /\ Browse
  /\ pc' = "done"
  /\ last' = Seen("quit")
  /\ UNCHANGED <<items, selected, color_index, formVars, infoVars,
                 hide_completed, disk, io_faults>>

\* Any other key in Browse mode: _ => {}
KeyOtherBrowse ==
  /\ Browse
  /\ Handled("other")
  /\ UNCHANGED <<items, selected, color_index, formVars, infoVars,
                 hide_completed, disk, io_faults>>

(* ---------------------------- Editing mode ---------------------------- *)

Editing == pc = "read" /\ show_create

\* KeyCode::Esc => self.show_create = false
KeyEscForm ==
  /\ Editing
  /\ show_create' = FALSE
  /\ Handled("esc")
  /\ UNCHANGED <<items, selected, color_index, input_name,
                 input_description, input_focus, editing_index, infoVars,
                 hide_completed, disk, io_faults>>

\* A save_item that pushes whether or not there is an edit target.
SaveItemStoreAppends(its, form, now) ==
  Append(its, CreateItem(form.input_name, form.input_description, now))

\* App::save_item: the store after the call, for a non-blank name
SaveItemStore(its, form, now) ==
  LET item == CreateItem(form.input_name, form.input_description, now)
  IN IF form.editing_index /= None
     THEN [its EXCEPT ![Unwrap(form.editing_index) + 1] = item]
     ELSE Append(its, item)

\* App::save_item: the form after the call, for a non-blank name
SaveItemForm(its, form) == ToggleCreate(its, [form EXCEPT !.editing_index = None])

\* KeyCode::Enter with the Name field focused: focus moves to Description
KeyEnterName ==
  /\ Editing
  /\ input_focus /= "Description"
  /\ input_focus' = "Description"
  /\ Handled("enter")
  /\ UNCHANGED <<items, selected, color_index, show_create, input_name,
                 input_description, editing_index, infoVars, hide_completed, disk,
                 io_faults>>

\* Enter routed to App::add_item (313-327), as the Enter arm of
\* handle_popup_input does: always a push, and panic! when the save fails.
KeyEnterAddItem ==
  /\ Editing
  /\ input_focus = "Description"
  /\ IF TrimIsEmpty(input_name)
     THEN /\ pc' = "draw"
          /\ UNCHANGED <<items, disk, io_faults, formVars>>
     ELSE /\ Len(items) < MaxItems
          /\ \E now \in Times :
               /\ items' = Append(items, CreateItem(input_name, input_description, now))
               /\ \E w \in SaveJson(disk, items', io_faults) :
                    /\ disk' = w.disk
                    /\ io_faults' = w.io_faults
                    /\ pc' = IF w.ok THEN "draw" ELSE "panic"
               /\ SetForm(ToggleCreate(items', Form))
  /\ last' = Seen("submit")
  /\ UNCHANGED <<selected, color_index, infoVars, hide_completed>>

\* KeyCode::Enter with the Description field focused: self.save_item()
KeyEnterSubmit ==
  /\ Editing
  /\ input_focus = "Description"
  /\ IF TrimIsEmpty(input_name)
     THEN UNCHANGED <<items, disk, io_faults, formVars>>
     ELSE /\ editing_index = None => Len(items) < MaxItems
          /\ \E now \in Times :
               /\ items' = SaveItemStore(items, Form, now)
               /\ \E w \in SaveJson(disk, items', io_faults) :
                    /\ disk' = w.disk
                    /\ io_faults' = w.io_faults
               /\ SetForm(SaveItemForm(items', Form))
  /\ Handled("submit")
  /\ UNCHANGED <<selected, color_index, infoVars, hide_completed>>

\* App::handle_popup_input, KeyCode::Char(c): the (name, description) buffers after it
PopupChar(form, c) ==
  IF form.input_focus = "Name" /\ ByteLen(form.input_name) < NameCap
  THEN [form EXCEPT !.input_name = Append(@, c)]
  ELSE IF form.input_focus = "Description" /\ ByteLen(form.input_description) < DescCap
  THEN [form EXCEPT !.input_description = Append(@, c)]
  ELSE form

FocusedBuffer(form) ==
  IF form.input_focus = "Name" THEN form.input_name ELSE form.input_description

\* KeyCode::Char(c) in the form
KeyChar(c) ==
  /\ Editing
  /\ Len(FocusedBuffer(Form)) < MaxLen
  /\ SetForm(PopupChar(Form, c))
  /\ Handled("char")
  /\ UNCHANGED <<items, selected, color_index, infoVars,
                 hide_completed, disk, io_faults>>

\* KeyCode::Char(c) in the form for a letter c, recorded under its own name
\* (pressed while the two buffers together hold fewer than MaxLen characters)
KeyLetter(c) ==
  /\ Editing
  /\ Len(input_name) + Len(input_description) < MaxLen
  /\ SetForm(PopupChar(Form, c))
  /\ Handled(c)
  /\ UNCHANGED <<items, selected, color_index, infoVars,
                 hide_completed, disk, io_faults>>

\* KeyCode::Char(c) in the form, for a buffer of any length
KeyCharAtCap(c) ==
  /\ Editing
  /\ SetForm(PopupChar(Form, c))
  /\ Handled("char")
  /\ UNCHANGED <<items, selected, color_index, infoVars,
                 hide_completed, disk, io_faults>>

\* String::pop on a non-empty string
Pop(s) == IF s = <<>> THEN s ELSE SubSeq(s, 1, Len(s) - 1)

\* App::handle_popup_input, KeyCode::Backspace
PopupBackspace(form) ==
  IF form.input_focus = "Name"
  THEN [form EXCEPT !.input_name = Pop(@)]
  ELSE [form EXCEPT !.input_description = Pop(@)]

KeyBackspace ==
  /\ Editing
  /\ SetForm(PopupBackspace(Form))
  /\ Handled("backspace")
  /\ UNCHANGED <<items, selected, color_index, infoVars,
                 hide_completed, disk, io_faults>>

\* App::handle_popup_input, KeyCode::Tab if !self.show_info
PopupTab(form, info) ==
  IF info THEN form
  ELSE [form EXCEPT !.input_focus = IF @ = "Name" THEN "Description" ELSE "Name"]

KeyTab ==
  /\ Editing
  /\ SetForm(PopupTab(Form, show_info))
  /\ Handled("tab")
  /\ UNCHANGED <<items, selected, color_index, infoVars,
                 hide_completed, disk, io_faults>>

\* Any other key in the form: handle_popup_input's _ => {}
KeyOtherForm ==
  /\ Editing
  /\ Handled("other")
  /\ UNCHANGED <<items, selected, color_index, formVars, infoVars,
                 hide_completed, disk, io_faults>>

(* ---------------------------- Info overlay --------------------------- *)

InfoOverlay == pc = "read" /\ ~show_create /\ show_info

\* KeyCode::Esc | KeyCode::Char('i') => self.show_info = false
KeyCloseInfo ==
  /\ InfoOverlay
  /\ show_info' = FALSE
  /\ Handled("close_info")
  /\ UNCHANGED <<items, selected, color_index, formVars, checkboxes,
                 selected_checkbox, hide_completed, disk, io_faults>>

\* App::handle_info_input, the four cursor keys: the checkbox cursor after the key
InfoCursor(key, cur) ==
  CASE key = "Down" -> (cur + 1) % CheckboxCount
    [] key = "Up" -> (cur + CheckboxCount - 1) % CheckboxCount
    [] key = "Left" -> IF cur > 0 THEN cur - 1 ELSE CheckboxCount - 1
    [] key = "Right" -> IF cur < CheckboxCount - 1 THEN cur + 1 ELSE 0

KeyInfoCursor(key) ==
  /\ InfoOverlay
  /\ selected_checkbox' = InfoCursor(key, selected_checkbox)
  /\ Handled(key)
  /\ UNCHANGED <<items, selected, color_index, formVars, show_info, checkboxes,
                 hide_completed, disk, io_faults>>

\* A toggle that flips every checkbox of the overlay.
InfoToggleAll(boxes, cur) == [k \in 1..Len(boxes) |-> ~boxes[k]]

\* App::handle_info_input, KeyCode::Enter: the checkboxes after the key
InfoToggle(boxes, cur) ==
  IF cur < Len(boxes) THEN [boxes EXCEPT ![cur + 1] = ~@] ELSE boxes

\* The "Hide Completed" checkbox is checkboxes[0]
KeyInfoEnter ==
  /\ InfoOverlay
  /\ checkboxes' = InfoToggle(checkboxes, selected_checkbox)
  /\ IF selected_checkbox = 0
     THEN /\ hide_completed' = checkboxes'[1]
          /\ selected' = UpdateSelectedIndex(items, checkboxes'[1], selected)
     ELSE UNCHANGED <<hide_completed, selected>>
  /\ Handled("info_enter")
  /\ UNCHANGED <<items, color_index, formVars, show_info, selected_checkbox,
                 disk, io_faults>>

\* Any other key in the overlay: handle_info_input's _ => {}
KeyOtherInfo ==
  /\ InfoOverlay
  /\ Handled("other")
  /\ UNCHANGED <<items, selected, color_index, formVars, infoVars,
                 hide_completed, disk, io_faults>>

(* ------------------------------ Next ---------------------------------- *)

BrowseKeys ==
  \/ KeyNext
  \/ KeyNextPanic
  \/ KeyPrevious
  \/ KeyDelete
  \/ KeyCreate
  \/ KeyEdit
  \/ KeyProgress
  \/ KeyToggleHide
  \/ KeyQuit

FormKeys ==
  \/ KeyEscForm
  \/ KeyEnterName
  \/ KeyEnterSubmit
  \/ \E c \in Chars : KeyChar(c)
  \/ KeyBackspace
  \/ KeyTab

\* Sessions of the task keys: navigation, filter toggle, delete, progress
\* cycle, create and edit with the whole form, quit.
Next ==
  \/ Draw
  \/ BrowseKeys
  \/ FormKeys

Spec == Init /\ [][Next]_vars

\* Sessions of the Browse-mode task keys alone (the form is never opened).
NextBrowse ==
  \/ Draw
  \/ KeyNext
  \/ KeyNextPanic
  \/ KeyPrevious
  \/ KeyDelete
  \/ KeyProgress
  \/ KeyToggleHide
  \/ KeyQuit

SpecBrowse == InitBrowse /\ [][NextBrowse]_vars

InfoKeys ==
  \/ KeyCloseInfo
  \/ \E key \in {"Down", "Up", "Left", "Right"} : KeyInfoCursor(key)
  \/ KeyInfoEnter

\* Sessions of the settings keys: the info overlay, the filter toggle, the
\* color keys and navigation (the store is never changed), on the stores of
\* up to MaxFileItems tasks that data.json can hold.
NextInfo ==
  \/ Draw
  \/ KeyInfo
  \/ InfoKeys
  \/ KeyNextColor
  \/ KeyPreviousColor
  \/ KeyToggleHide
  \/ KeyNext
  \/ KeyPrevious

SpecInfo == InitBrowse /\ [][NextInfo]_vars

\* Sessions of the keys that change the store (delete, progress, form submit)
\* with what they need: navigation, the filter key and the form keys.
NextSave ==
  \/ Draw
  \/ KeyNext
  \/ KeyDelete
  \/ KeyProgress
  \/ KeyToggleHide
  \/ KeyCreate
  \/ KeyEdit
  \/ KeyEscForm
  \/ KeyEnterName
  \/ KeyEnterSubmit
  \/ \E c \in Chars : KeyChar(c)

SpecSave == InitIO /\ [][NextSave]_vars

\* Sessions of the create form, delete and progress with one key of each kind
\* that leaves the store alone: navigation, color, filter, the overlay opened
\* and closed, typing and Esc in the form.
NextIO ==
  \/ Draw
  \/ KeyNext
  \/ KeyNextColor
  \/ KeyToggleHide
  \/ KeyInfo
  \/ KeyCloseInfo
  \/ KeyDelete
  \/ KeyProgress
  \/ KeyCreate
  \/ KeyEscForm
  \/ KeyEnterName
  \/ KeyEnterSubmit
  \/ \E c \in Chars : KeyChar(c)

SpecIO == InitIO /\ [][NextIO]_vars

\* Sessions that type into form buffers that are at or near their caps.
NextCap ==
  \/ Draw
  \/ \E c \in CapChars : KeyCharAtCap(c)
  \/ KeyTab

SpecCap == InitCap /\ [][NextCap]_vars

\* The Browse sessions with the edit key, whose form is closed with Esc.
NextResolve ==
  \/ NextBrowse
  \/ KeyEdit
  \/ KeyEscForm

SpecResolve == InitBrowse /\ [][NextResolve]_vars

\* Sessions of delete and create on the stores of up to MaxFileItems tasks
\* that data.json can hold, with navigation and the filter key.
NextDelete ==
  \/ Draw
  \/ KeyNext
  \/ KeyToggleHide
  \/ KeyDelete
  \/ KeyCreate
  \/ KeyEnterName
  \/ KeyEnterSubmit
  \/ \E c \in Chars : KeyChar(c)

SpecDelete == InitBrowse /\ [][NextDelete]_vars

\* Sessions that press every key in every mode: the Browse commands, the form
\* keys with the command letters as text (no submit), the overlay keys, and a
\* key that is bound to nothing.
NextRouting ==
  \/ Draw
  \/ KeyQuit
  \/ KeyDelete
  \/ KeyProgress
  \/ KeyToggleHide
  \/ KeyCreate
  \/ KeyEdit
  \/ KeyInfo
  \/ KeyNext
  \/ KeyPrevious
  \/ KeyNextColor
  \/ KeyPreviousColor
  \/ KeyOtherBrowse
  \/ KeyEscForm
  \/ KeyEnterName
  \/ \E c \in CommandLetters : KeyLetter(c)
  \/ KeyBackspace
  \/ KeyTab
  \/ KeyOtherForm
  \/ InfoKeys
  \/ KeyOtherInfo

SpecRouting == InitRouting /\ [][NextRouting]_vars

\* Sessions of the Browse-mode task keys on stores of up to MaxViewItems tasks.
SpecView == InitView /\ [][NextBrowse]_vars

\* Sessions that open and close the form and the overlay: the create, edit
\* and info keys, every form key and every overlay key.
NextModes ==
  \/ Draw
  \/ KeyCreate
  \/ KeyEdit
  \/ KeyInfo
  \/ FormKeys
  \/ InfoKeys

SpecModes == Init /\ [][NextModes]_vars

(* ------------------------------ claims -------------------------------- *)

\* The filtered view of the current state
View == GetFilteredItems(items, hide_completed)

\* The step in which the dispatch of App::run handles `key`
Pressed(key) == pc = "read" /\ last'.key = key

\* The state in which the handler of `key` has just returned (before the draw)
Returned(key) == pc = "draw" /\ last.key = key

\* C1: when next (j/Down) or previous (k/Up) returns and the filtered view is
\* non-empty, the selected index i satisfies 0 <= i < length of the view.
C1_SelectionInViewAfterNavigation ==
  ((Returned("next") \/ Returned("previous")) /\ View /= <<>>)
    => (selected /= None /\ Unwrap(selected) >= 0 /\ Unwrap(selected) < Len(View))

\* The row C2 states for a view of n rows and a current row cur.
NavigationTarget(key, cur, n) ==
  IF key = "next" THEN (IF cur < n - 1 THEN cur + 1 ELSE 0)
  ELSE (IF cur > 0 THEN cur - 1 ELSE n - 1)

\* C2: on a non-empty view of n rows with current row cur < n, the row the
\* following key press operates on (the selection after the draw that follows
\* the handler) is cur + 1 / 0 at the end after next, and cur - 1 / n - 1 at
\* the start after previous.
C2_NavigationWrapsAtViewBounds ==
  [][((Returned("next") \/ Returned("previous"))
        /\ last.sel /= None /\ Unwrap(last.sel) < Len(View))
      => selected' = Some(NavigationTarget(last.key, Unwrap(last.sel), Len(View)))]_vars

\* The store positions C3 says the view shows
Shown(its, hide) == {k \in 1..Len(its) : ~hide \/ its[k].progress /= "Done"}

\* C3: the filtered view holds all and only the tasks with progress /= Done
\* when hide_completed is set and the whole store otherwise, in store order:
\* its r-th row is the r-th shown store position.
C3_FilteredViewIsSubsequence ==
  LET shown == Shown(items, hide_completed)
  IN /\ Len(View) = Cardinality(shown)
     /\ \A k \in shown : View[Cardinality({j \in shown : j <= k})] = items[k]
     /\ ~hide_completed => View = items

\* A Done task between two shown tasks is hidden.
C3_Witness ==
  /\ hide_completed
  /\ Len(items) = 3
  /\ items[1].progress /= "Done"
  /\ items[2].progress = "Done"
  /\ items[3].progress /= "Done"
  /\ View = <<items[1], items[3]>>

\* The name is empty or holds whitespace only (the claim's own reading).
BlankName(s) == ~ \E k \in 1..Len(s) : s[k] /= " "

\* C4: submitting an edit replaces the task at the edit target with one whose
\* name and description are the buffers and whose progress is the original
\* task's; the store length and every other task are unchanged.
C4_EditKeepsProgress ==
  [][(Pressed("submit") /\ input_focus = "Description" /\ editing_index /= None
        /\ ~BlankName(input_name))
      => LET i == Unwrap(editing_index) + 1
         IN /\ Len(items') = Len(items)
            /\ \A k \in 1..Len(items) : k /= i => items'[k] = items[k]
            /\ items'[i].name = input_name
            /\ items'[i].description = input_description
            /\ items'[i].progress = items[i].progress]_vars

\* C5: Enter with Description focus and a blank name changes neither the store
\* nor the persisted list, and the form stays open with both buffers, the focus
\* and the edit target as they were.
C5_BlankSubmitChangesNothing ==
  [][(Pressed("submit") /\ show_create /\ input_focus = "Description"
        /\ BlankName(input_name))
      => /\ items' = items
         /\ disk' = disk
         /\ show_create' /\ ~show_info'
         /\ input_name' = input_name
         /\ input_description' = input_description
         /\ input_focus' = input_focus
         /\ editing_index' = editing_index]_vars

\* A whitespace-only name was submitted for an edit and refused.
C5_Witness ==
  /\ Returned("submit")
  /\ show_create
  /\ input_name = <<" ">>
  /\ editing_index /= None

\* C6: Escape in the form leaves the store and the persisted list unchanged,
\* moves to Browse mode and leaves the form cleared.
C6_EscapeClearsForm ==
  [][(Pressed("esc") /\ show_create)
      => /\ items' = items
         /\ disk' = disk
         /\ ~show_create' /\ ~show_info'
         /\ input_name' = <<>>
         /\ input_description' = <<>>
         /\ editing_index' = None]_vars

\* The lowest store position whose four fields equal those of task t
FirstEqual(its, t) ==
  CHOOSE k \in 1..Len(its) : its[k] = t /\ \A j \in 1..(k - 1) : its[j] /= t

\* C7: the create key opens the form with empty buffers, focus on Name and no
\* edit target; the edit key, when it opens the form, opens it with the
\* buffers equal to the name and description of the store task the selected
\* row resolves to, focus on Name and the edit target set to that index.
C7_FormOpensFresh ==
  [][/\ (Pressed("create") /\ ~show_create /\ ~show_info)
          => /\ show_create'
             /\ input_name' = <<>>
             /\ input_description' = <<>>
             /\ input_focus' = "Name"
             /\ editing_index' = None
     /\ (Pressed("edit") /\ ~show_create /\ ~show_info /\ show_create')
          => /\ selected /= None /\ Unwrap(selected) < Len(View)
             /\ LET i == FirstEqual(items, View[Unwrap(selected) + 1])
                IN /\ editing_index' = Some(i - 1)
                   /\ input_name' = items[i].name
                   /\ input_description' = items[i].description
                   /\ input_focus' = "Name"
     /\ (Pressed("edit") /\ ~show_create /\ ~show_info
           /\ selected /= None /\ Unwrap(selected) < Len(View))
          => show_create']_vars

\* The edit key opened the form on the second task of the store.
C7_Witness ==
  /\ Returned("edit")
  /\ show_create
  /\ editing_index = Some(1)
  /\ input_name = items[2].name
  /\ input_focus = "Name"

\* C8: submitting the create form with a non-blank name appends exactly one
\* task with the buffers as name and description and progress InProgress,
\* leaves the earlier tasks as they were, returns to Browse mode and leaves
\* the buffers empty and the edit target none.
C8_CreateAppends ==
  [][(Pressed("submit") /\ show_create /\ input_focus = "Description"
        /\ editing_index = None /\ ~BlankName(input_name))
      => /\ Len(items') = Len(items) + 1
         /\ SubSeq(items', 1, Len(items)) = items
         /\ items'[Len(items')].name = input_name
         /\ items'[Len(items')].description = input_description
         /\ items'[Len(items')].progress = "InProgress"
         /\ ~show_create' /\ ~show_info'
         /\ input_name' = <<>>
         /\ input_description' = <<>>
         /\ editing_index' = None]_vars

\* A create submit appended a second task, with a description.
C8_Witness ==
  /\ Returned("submit")
  /\ last.edit = None
  /\ ~show_create
  /\ Len(items) = 2
  /\ Len(last.items) = 1
  /\ items[2].description = <<"a">>

\* The cycle C9 states
Cycle(p) ==
  IF p = "InProgress" THEN "Waiting" ELSE IF p = "Waiting" THEN "Done" ELSE "InProgress"

\* C9: the progress-cycle operation maps InProgress to Waiting, Waiting to
\* Done and Done to InProgress; three applications return the original value
\* and one or two never do.  A press of the progress-cycle key changes the
\* progress of at most one store task, by that map, and leaves the store's
\* length and order and every other field of every task unchanged.
C9_ProgressCycle ==
  [][/\ \A p \in Progress :
          /\ NextProgressOf(p) = Cycle(p)
          /\ NextProgressOf(NextProgressOf(NextProgressOf(p))) = p
          /\ NextProgressOf(p) /= p
          /\ NextProgressOf(NextProgressOf(p)) /= p
     /\ (Pressed("progress") /\ ~show_create /\ ~show_info)
          => /\ Len(items') = Len(items)
             /\ Cardinality({k \in 1..Len(items) : items'[k] /= items[k]}) <= 1
             /\ \A k \in 1..Len(items) :
                  /\ items'[k].name = items[k].name
                  /\ items'[k].description = items[k].description
                  /\ items'[k].created = items[k].created
                  /\ items'[k].progress /= items[k].progress
                       => items'[k].progress = Cycle(items[k].progress)
             /\ (selected /= None /\ Unwrap(selected) < Len(View))
                  => Cardinality({k \in 1..Len(items) : items'[k] /= items[k]}) = 1]_vars

\* A press cycled the middle task of three from Waiting to Done.
C9_Witness ==
  /\ Returned("progress")
  /\ Len(items) = 3
  /\ last.items[2].progress = "Waiting"
  /\ items[2].progress = "Done"
  /\ items[1] = last.items[1]
  /\ items[3] = last.items[3]

\* C10: when delete or progress-cycle returns and the filtered view is
\* non-empty, the selected index is < the view's length.
C10_SelectionReclamped ==
  ((Returned("delete") \/ Returned("progress")) /\ View /= <<>> /\ selected /= None)
    => Unwrap(selected) < Len(View)

\* C11: in every reachable state at most one of the form and the info overlay
\* is open: show_create and show_info are never both true, so the mode is
\* exactly one of Browse (neither), Editing (form) and InfoOverlay (overlay).
C11_FormAndOverlayExclusive ==
  /\ ~(show_create /\ show_info)
  /\ pc = "read" =>
       Cardinality({m \in {"Browse", "Editing", "InfoOverlay"} :
                      \/ m = "Browse" /\ Browse
                      \/ m = "Editing" /\ Editing
                      \/ m = "InfoOverlay" /\ InfoOverlay}) = 1

\* The overlay is open after a form was filled in and closed, with the second
\* checkbox ticked: both modes have been entered and left.
C11_Witness ==
  /\ pc = "read"
  /\ show_info
  /\ ~show_create
  /\ input_name /= <<>>
  /\ checkboxes[2]

\* The handler of this step reaches its save_json call: a submit with a
\* non-blank name, or a delete or progress key with a selected row in the view.
SaveAttempted ==
  /\ pc = "read"
  /\ \/ last'.key = "submit" /\ ~BlankName(input_name)
     \/ /\ last'.key \in {"delete", "progress"}
        /\ selected /= None
        /\ Unwrap(selected) < Len(View)

\* The write of this step succeeded / failed.
SaveSucceeded == SaveAttempted /\ io_faults' = io_faults
SaveFailed == SaveAttempted /\ io_faults' < io_faults

\* C12: after a form submit, delete or progress cycle whose save succeeds the
\* persisted list equals the store element for element, whatever happened to
\* earlier saves; every other step (navigation, color, filter, overlay,
\* typing, cancel, rejected submit, draw) leaves the persisted list as it was.
C12_PersistedEqualsStoreAfterSave ==
  [][/\ SaveSucceeded => disk' = [valid |-> TRUE, data |-> items']
     /\ ~SaveAttempted => disk' = disk]_vars

\* A progress cycle was saved after an earlier write had failed.
C12_Witness ==
  /\ Returned("progress")
  /\ io_faults < MaxFaults
  /\ items /= last.items
  /\ disk = [valid |-> TRUE, data |-> items]

\* C13: when the save fails during a form submit, a delete or a progress
\* cycle, the store holds the mutation, the persisted list is as it was before
\* the operation, and the operation completes as on success: the submit closes
\* the form and control returns to the loop, the delete sets the selection.
C13_FailedSaveKeepsMutationAndFile ==
  [][SaveFailed =>
       /\ disk' = disk
       /\ pc' = "draw"
       /\ last'.key = "submit" =>
            /\ ~show_create'
            /\ IF editing_index = None
               THEN /\ Len(items') = Len(items) + 1
                    /\ items'[Len(items')].name = input_name
               ELSE /\ Len(items') = Len(items)
                    /\ items'[Unwrap(editing_index) + 1].name = input_name
       /\ last'.key = "delete" =>
            /\ Len(items') = Len(items) - 1
            /\ selected' /= None
            /\ Unwrap(selected') <= Unwrap(selected)
       /\ last'.key = "progress" =>
            \E k \in 1..Len(items) :
              items' = [items EXCEPT ![k].progress = Cycle(items[k].progress)]]_vars

\* The part of C13 that does not concern the file.
C13_FailedSaveKeepsMutation ==
  [][SaveFailed =>
       /\ pc' = "draw"
       /\ ~disk'.valid \/ disk' = disk
       /\ last'.key = "submit" =>
            /\ ~show_create'
            /\ IF editing_index = None
               THEN /\ Len(items') = Len(items) + 1
                    /\ items'[Len(items')].name = input_name
               ELSE /\ Len(items') = Len(items)
                    /\ items'[Unwrap(editing_index) + 1].name = input_name
       /\ last'.key = "delete" =>
            /\ Len(items') = Len(items) - 1
            /\ selected' /= None
            /\ Unwrap(selected') <= Unwrap(selected)
       /\ last'.key = "progress" =>
            \E k \in 1..Len(items) :
              items' = [items EXCEPT ![k].progress = Cycle(items[k].progress)]]_vars

FocusedCap == IF input_focus = "Name" THEN NameCap ELSE DescCap

\* C15: a character key in the form appends the character to the focused
\* buffer iff the buffer holds fewer characters than its cap and is ignored
\* otherwise; the other buffer, the focus, the store and the mode are
\* unchanged, and no buffer exceeds its cap in characters.
C15_CharAppendsBelowCap ==
  [][(pc = "read" /\ show_create /\ last'.key = "char") =>
       LET buf == FocusedBuffer(Form)
           buf2 == IF input_focus = "Name" THEN input_name' ELSE input_description'
       IN /\ IF Len(buf) < FocusedCap
             THEN Len(buf2) = Len(buf) + 1 /\ SubSeq(buf2, 1, Len(buf)) = buf
             ELSE buf2 = buf
          /\ input_focus = "Name" => input_description' = input_description
          /\ input_focus /= "Name" => input_name' = input_name
          /\ UNCHANGED <<input_focus, items, show_create, show_info>>
          /\ Len(input_name') <= NameCap
          /\ Len(input_description') <= DescCap]_vars

\* C16: Enter in the overlay flips the selected checkbox and no other; when
\* that checkbox is "Hide Completed" (the first), hide_completed becomes its
\* new state and the selection is kept if it is below the new view's length
\* and is 0 otherwise; the store and the persisted list are unchanged.
C16_OverlayEnterTogglesSelected ==
  [][(InfoOverlay /\ last'.key = "info_enter") =>
       /\ \A k \in 1..CheckboxCount :
            checkboxes'[k] = IF k = selected_checkbox + 1 THEN ~checkboxes[k]
                             ELSE checkboxes[k]
       /\ selected_checkbox = 0 =>
            /\ hide_completed' = checkboxes'[1]
            /\ selected' = IF selected /= None /\ Unwrap(selected) < Len(View')
                           THEN selected ELSE Some(0)
       /\ UNCHANGED <<items, disk>>]_vars

\* Ticking "Hide Completed" with the second of two rows selected left a
\* one-row view and moved the selection to row 0.
C16_Witness ==
  /\ Returned("info_enter")
  /\ checkboxes = <<TRUE, FALSE, FALSE>>
  /\ hide_completed
  /\ Len(items) = 2
  /\ last.sel = Some(1)
  /\ Len(View) = 1
  /\ selected = Some(0)

\* The press of the filter key that has just returned followed another press
\* of it, with only the draw in between.
PressedTwice == Returned("toggle_hide") /\ last.before /= <<>>

\* C17 as stated: two presses of the filter key in a row restore
\* hide_completed, the filtered view and the selected index (when a row was
\* selected before the first press).
C17_DoubleToggleRestoresSelection ==
  (PressedTwice /\ last.before[1].sel /= None) =>
    LET b == last.before[1]
    IN /\ hide_completed = b.hide
       /\ View = GetFilteredItems(b.items, b.hide)
       /\ selected = b.sel

\* C17, amended: two presses of the filter key in a row restore
\* hide_completed and the filtered view; the selected index is restored when
\* it was below the length of the view after the first press, and is 0
\* otherwise.
C17_DoubleToggleRestoresView ==
  PressedTwice =>
    LET b == last.before[1]
    IN /\ hide_completed = b.hide
       /\ View = GetFilteredItems(b.items, b.hide)
       /\ selected = IF b.sel /= None
                        /\ Unwrap(b.sel) < Len(GetFilteredItems(b.items, ~b.hide))
                      THEN b.sel ELSE Some(0)

\* Two presses with the second of three rows selected and a Done task in the
\* store: the view shrank and grew again around the selection.
C17_Witness ==
  /\ PressedTwice
  /\ Len(items) = 3
  /\ items[3].progress = "Done"
  /\ last.before[1].sel = Some(1)
  /\ selected = Some(1)

\* hide_completed changes in this step, by the Browse filter key or by Enter
\* on the "Hide Completed" checkbox.
HideChanges ==
  /\ pc = "read"
  /\ last'.key \in {"toggle_hide", "info_enter"}
  /\ hide_completed' /= hide_completed

\* C18: after hide_completed changes, by the Browse filter key or by Enter on
\* the "Hide Completed" checkbox, the selected index is its previous value if
\* that is below the new view's length and 0 otherwise.
C18_SelectionAfterFilterChange ==
  [][HideChanges =>
       selected' = IF selected /= None /\ Unwrap(selected) < Len(View')
                   THEN selected ELSE Some(0)]_vars

\* Ticking the checkbox with the third of three rows selected hid one Done
\* task: the view has two rows and the selection is 0, not the last row.
C18_Witness ==
  /\ Returned("info_enter")
  /\ Len(items) = 3
  /\ ~last.hide
  /\ hide_completed
  /\ last.sel = Some(2)
  /\ Len(View) = 2
  /\ selected = Some(0)

\* The store position (from 1) of the task shown at view row r (from 0)
ShownAt(its, hide, r) ==
  CHOOSE k \in Shown(its, hide) :
    Cardinality({j \in Shown(its, hide) : j <= k}) = r + 1

\* C19: with a row of the view selected, delete, edit and progress-cycle act
\* on the lowest store index whose four fields equal those of the task shown
\* at that row: the shown task itself when the tasks are pairwise distinct,
\* the first of its duplicates otherwise.
C19_ActsOnFirstMatch ==
  [][(Browse /\ last'.key \in {"delete", "edit", "progress"}
        /\ selected /= None /\ Unwrap(selected) < Len(View)) =>
       LET t == View[Unwrap(selected) + 1]
           f == FirstEqual(items, t)
       IN /\ last'.key = "delete" =>
               items' = SubSeq(items, 1, f - 1) \o SubSeq(items, f + 1, Len(items))
          /\ last'.key = "progress" =>
               items' = [items EXCEPT ![f].progress = Cycle(@)]
          /\ last'.key = "edit" => editing_index' = Some(f - 1)
          /\ (\A j, k \in 1..Len(items) : j /= k => items[j] /= items[k])
               => f = ShownAt(items, hide_completed, Unwrap(selected))
          /\ f <= ShownAt(items, hide_completed, Unwrap(selected))]_vars

\* The progress key on the second of two equal tasks cycled the first.
C19_Witness ==
  /\ Returned("progress")
  /\ ~hide_completed
  /\ Len(last.items) >= 2
  /\ last.items[1] = last.items[2]
  /\ last.sel = Some(1)
  /\ items[1] /= last.items[1]
  /\ items[2] = last.items[2]

\* C20: while "Lock Color" is checked the color keys leave the palette index
\* unchanged; while it is unchecked the next-color key advances it and the
\* previous-color key retreats it by one modulo the palette count (4), so
\* next followed by previous is the identity, and the index is always in
\* 0..3.
C20_ColorKeysRespectLock ==
  [][/\ color_index \in 0..3
     /\ color_index' \in 0..3
     /\ \A c \in 0..3 : PreviousColor(NextColor(c)) = c
     /\ (Browse /\ last'.key \in {"next_color", "previous_color"}) =>
          IF checkboxes[2]
          THEN color_index' = color_index
          ELSE /\ last'.key = "next_color" => color_index' = (color_index + 1) % 4
               /\ last'.key = "previous_color" =>
                    color_index' = IF color_index = 0 THEN 3 ELSE color_index - 1]_vars

\* A color key was pressed with "Lock Color" checked (and nothing else
\* checked) after the index had been moved to the last palette.
C20_Witness ==
  /\ Returned("next_color")
  /\ checkboxes = <<FALSE, TRUE, FALSE>>
  /\ color_index = 3

\* C21: pressing next in Browse mode when the filtered view is empty (empty
\* store, or every task Done and hidden) does not fail and leaves the
\* selected index 0.
C21_NextOnEmptyViewYieldsZero ==
  [][(Browse /\ last'.key = "next" /\ View = <<>>) =>
       /\ pc' = "draw"
       /\ selected' = Some(0)]_vars

\* C22: a delete key with a selected row in the view removes exactly the
\* resolved task (length - 1, the others unchanged and in order); with an
\* empty view it changes nothing.  On the empty store (as after the delete of
\* the only task) the create key opens the form with no edit target, and the
\* submit of that form appends.
C22_DeleteRemovesExactlyOne ==
  [][/\ (Browse /\ last'.key = "delete"
          /\ selected /= None /\ Unwrap(selected) < Len(View)) =>
          LET f == FirstEqual(items, View[Unwrap(selected) + 1])
          IN /\ Len(items') = Len(items) - 1
             /\ \A k \in 1..Len(items') :
                  items'[k] = IF k < f THEN items[k] ELSE items[k + 1]
     /\ (Browse /\ last'.key = "delete" /\ View = <<>>) =>
          UNCHANGED <<items, disk, selected, hide_completed, color_index,
                      formVars, infoVars>>
     /\ (Browse /\ last'.key = "create" /\ items = <<>>) =>
          show_create' /\ editing_index' = None
     /\ (Editing /\ last'.key = "submit" /\ items = <<>>
          /\ editing_index = None /\ ~BlankName(input_name)) =>
          Len(items') = 1 /\ items'[1].name = input_name]_vars

\* The first of three pairwise distinct tasks was deleted: the other two are
\* left, in their order.
C22_Witness ==
  /\ Returned("delete")
  /\ Len(last.items) = 3
  /\ last.sel = Some(0)
  /\ last.items[1] /= last.items[2]
  /\ last.items[2] /= last.items[3]
  /\ last.items[1] /= last.items[3]
  /\ items = <<last.items[2], last.items[3]>>

\* C23: in Editing mode no key but the submitting Enter changes the store,
\* the persisted list, the selection, hide_completed or the palette, and a
\* Browse command letter is appended to the focused buffer, the form staying
\* open and the session going on; in InfoOverlay mode no key changes the
\* store, the persisted list or the form buffers, and only Escape or i closes
\* the overlay.
C23_KeysRoutedByMode ==
  [][/\ (Editing /\ last'.key /= "submit") =>
          /\ UNCHANGED <<items, disk, selected, hide_completed, color_index>>
          /\ pc' = "draw"
     /\ (Editing /\ last'.key \in CommandLetters) =>
          /\ IF input_focus = "Name"
             THEN /\ input_name' = Append(input_name, last'.key)
                  /\ input_description' = input_description
             ELSE /\ input_description' = Append(input_description, last'.key)
                  /\ input_name' = input_name
          /\ show_create' /\ ~show_info'
     /\ InfoOverlay =>
          /\ UNCHANGED <<items, disk, input_name, input_description>>
          /\ pc' = "draw"
          /\ ~show_create'
          /\ ~show_info' => last'.key = "close_info"]_vars

\* The letter q was typed into the description of an edit form: the form is
\* open, the store is as it was and the loop goes on.
C23_Witness ==
  /\ Returned("q")
  /\ show_create
  /\ last.edit /= None
  /\ input_focus = "Description"
  /\ input_description = <<"q">>
  /\ items = last.items

\* C24: whenever a key is read and the filtered view is not empty, a row is
\* selected and its index is below the view's length, so that delete, edit
\* and progress resolve it to a task of the store.
C24_SelectedRowInViewAtRead ==
  (pc = "read" /\ View /= <<>>) =>
    /\ selected /= None
    /\ Unwrap(selected) < Len(View)
    /\ Resolve(items, hide_completed, selected) /= None
    /\ Unwrap(Resolve(items, hide_completed, selected)) < Len(items)

\* C25: in every state the checked state of the "Hide Completed" checkbox
\* equals hide_completed, however presses of t in Browse mode and of Enter on
\* the checkbox are interleaved.
C25_CheckboxMirrorsHideCompleted == checkboxes[1] = hide_completed

\* The Done tasks of a store, in store order.
DoneTasks(its) ==
  LET IsDone(item) == item.progress = "Done" IN SelectSeq(its, IsDone)

\* C26: while hide_completed is true, a delete and an edit submit leave the
\* Done tasks of the store (their fields and their order) as they were, and a
\* progress cycle leaves them as they were or adds one task to them.
C26_HiddenDoneTasksUntouched ==
  [][(pc = "read" /\ hide_completed) =>
       /\ last'.key \in {"delete", "submit"} =>
            DoneTasks(items') = DoneTasks(items)
       /\ last'.key = "progress" =>
            \/ DoneTasks(items') = DoneTasks(items)
            \/ \E k \in 0..(Len(DoneTasks(items')) - 1) :
                 RemoveAt(DoneTasks(items'), k) = DoneTasks(items)]_vars

\* A delete with the filter on has removed the shown task that stands after
\* a hidden Done task equal to it in name, description and creation time.
C26_Witness ==
  /\ Returned("delete")
  /\ last.hide
  /\ Len(last.items) = 2
  /\ last.items[1].progress = "Done"
  /\ last.items[2].progress /= "Done"
  /\ last.items[1].created = last.items[2].created
  /\ items = <<last.items[1]>>

\* No two tasks of the store are equal.
PairwiseDistinct(its) == \A i, j \in 1..Len(its) : i /= j => its[i] /= its[j]

\* C27: when a delete has removed the task shown at view row r (of a store
\* without equal tasks) and the new view is not empty, the row selected once
\* the table is rendered again is min(r, length of the new view - 1), with or
\* without hidden Done tasks.
C27_SelectionAfterDelete ==
  (/\ Returned("delete")
   /\ Len(items) = Len(last.items) - 1
   /\ PairwiseDistinct(last.items)
   /\ View /= <<>>) =>
    LET r == Unwrap(last.sel)
        row == IF r < Len(View) - 1 THEN r ELSE Len(View) - 1
    IN \A s \in RenderTable(items, hide_completed, selected) : s = Some(row)

\* C28: while the form is open with an edit target i, i is below the store's
\* length, and no step but the submit changes the store or the target; the
\* submit of an edit keeps the store's length and every task but the i-th,
\* and the submit of a new task with a non-blank name makes the store one
\* task longer, the new task last.
C28_EditTargetValidWhileFormOpen ==
  [][/\ (show_create /\ editing_index /= None) =>
          Unwrap(editing_index) < Len(items)
     /\ (show_create /\ last'.key /= "submit") =>
          /\ items' = items
          /\ show_create' => editing_index' = editing_index
     /\ (Editing /\ last'.key = "submit" /\ ~TrimIsEmpty(input_name)) =>
          IF editing_index /= None
          THEN /\ Len(items') = Len(items)
               /\ \A k \in 1..Len(items) :
                    k /= Unwrap(editing_index) + 1 => items'[k] = items[k]
               /\ items'[Unwrap(editing_index) + 1].name = input_name
          ELSE /\ Len(items') = Len(items) + 1
               /\ SubSeq(items', 1, Len(items)) = items
               /\ items'[Len(items')].name = input_name]_vars

\* The second of two tasks was edited and submitted: the store still has two
\* tasks, the first as it was and the second with the name typed.
C28_Witness ==
  /\ Returned("submit")
  /\ last.edit = Some(1)
  /\ Len(last.items) = 2
  /\ Len(items) = 2
  /\ items[1] = last.items[1]
  /\ items[2] /= last.items[2]
  /\ ~show_create

====
